---- MODULE Spec2Model ----
(***************************************************************************)
(* The notebook "Clustering algorithm comparison.ipynb", run top to bottom *)
(* in one kernel session.  A state is the session (the names the cells     *)
(* bind), the files the cells write and read, the wall clock, the library  *)
(* calls in progress and what has been drawn.  The clustering and plotting *)
(* libraries are opaque: a fit returns some label vector or raises, and    *)
(* takes some time.  The clock is read in the comparison cell only, and    *)
(* only there is its advance followed.                                     *)
(***************************************************************************)
EXTENDS Integers, Sequences, FiniteSets, TLC

VARIABLES pc, error, done, ns, clock, files, written, readBack,
          inflight, timed, fitLog, predLog, raisedAt, nextId, drawn

vars == <<pc, error, done, ns, clock, files, written, readBack,
          inflight, timed, fitLog, predLog, raisedAt, nextId, drawn>>

(* ------------------------------ bounds -------------------------------- *)

\* points in the dataset (the real file holds a few thousand)
NPoints == 2
\* largest label a fit may return; labels range over NoiseLabel..MaxLabel
MaxLabel == 1
\* distinct files the download may deliver
NDatasets == 2
\* longest a fit may take, in clock ticks
MaxFitTicks == 1
\* what every other library call of the comparison cell takes, in ticks
PlotTicks == 1
\* clock ticks in one hundredth of a second
TicksPerCenti == 2
\* new points handed to approximate_predict (the notebook draws 50)
NTestPoints == 1

(* -------------------------- program constants ------------------------- *)

NoiseLabel == -1
PredPaletteSize == 12
HdbsMinClusterSize == 20
MsMinClusterSize == 50

Labels == NoiseLabel..MaxLabel
LabelVectors == [1..NPoints -> Labels]
TestLabelVectors == [1..NTestPoints -> Labels]

DataFile == "clusterable_data.npy"
Garbage == 0
Downloads == (1..NDatasets) \cup {Garbage}

\* the min_samples cell moved up, between the scatter and the tree
Cells_reordered ==
  << "imports", "run_demo", "wget", "load", "plot_data", "combos", "compare",
     "hdbs_new", "hdbs_fit", "hdbs_scatter", "min_samples", "tree_plot",
     "tree_pandas", "pred_fit", "pred_plot", "approx", "pred_colors" >>

\* the code cells in document order (the raw cell at lines 495-516 is not run)
Cells ==
  << "imports", "run_demo", "wget", "load", "plot_data", "combos", "compare",
     "hdbs_new", "hdbs_fit", "hdbs_scatter", "tree_plot", "tree_pandas",
     "min_samples", "pred_fit", "pred_plot", "approx", "pred_colors" >>

IndexOf(c) == CHOOSE k \in 1..Len(Cells) : Cells[k] = c
After(c) == IF IndexOf(c) < Len(Cells) THEN Cells[IndexOf(c) + 1] ELSE "done"

algo_combos_mut ==
  << [algo |-> "KMeans",                  args |-> <<>>,        kwargs |-> <<"n_clusters=6">>],
     [algo |-> "MeanShift",               args |-> <<"0.175">>, kwargs |-> <<"cluster_all=False">>],
     [algo |-> "AffinityPropagation",     args |-> <<>>,        kwargs |-> <<"preference=-5.0", "damping=0.95">>],
     [algo |-> "SpectralClustering",      args |-> <<>>,        kwargs |-> <<"n_clusters=6">>],
     [algo |-> "AgglomerativeClustering", args |-> <<>>,        kwargs |-> <<"n_clusters=6", "linkage=ward">>],
     [algo |-> "DBSCAN",                  args |-> <<>>,        kwargs |-> <<"eps=0.025">>],
     [algo |-> "HDBSCAN",                 args |-> <<>>,        kwargs |-> <<"min_cluster_size=15">>] >>

algo_combos ==
  << [algo |-> "KMeans",                  args |-> <<>>,        kwargs |-> <<"n_clusters=6">>],
     [algo |-> "AffinityPropagation",     args |-> <<>>,        kwargs |-> <<"preference=-5.0", "damping=0.95">>],
     [algo |-> "MeanShift",               args |-> <<"0.175">>, kwargs |-> <<"cluster_all=False">>],
     [algo |-> "SpectralClustering",      args |-> <<>>,        kwargs |-> <<"n_clusters=6">>],
     [algo |-> "AgglomerativeClustering", args |-> <<>>,        kwargs |-> <<"n_clusters=6", "linkage=ward">>],
     [algo |-> "DBSCAN",                  args |-> <<>>,        kwargs |-> <<"eps=0.025">>],
     [algo |-> "HDBSCAN",                 args |-> <<>>,        kwargs |-> <<"min_cluster_size=15">>] >>

min_sample_vals == <<1, 10, 20, 50>>

(* ------------------------------ colours ------------------------------- *)

\* colours are (r, g, b) in thousandths
Gray == <<500, 500, 500>>
Black == <<0, 0, 0>>
NearBlack == <<100, 100, 100>>

\* seaborn's 'deep' palette
Deep ==
  << <<298, 447, 690>>, <<333, 659, 408>>, <<769, 306, 322>>,
     <<506, 447, 698>>, <<800, 725, 455>>, <<392, 710, 804>> >>

\* sns.color_palette('deep', n): n colours, cycling through the palette
ColorPalette(n) == [k \in 1..n |-> Deep[((k - 1) % Len(Deep)) + 1]]

\* np.unique(v): the distinct values of v
Unique(v) == {v[k] : k \in 1..Len(v)}
SetMax(S) == CHOOSE x \in S : \A y \in S : y <= x

\* seq[x] of a Python list: x counts from 0, a negative x from the end
InRange(seq, x) == -Len(seq) <= x /\ x < Len(seq)
PyGet(seq, x) == IF x >= 0 THEN seq[x + 1] ELSE seq[Len(seq) + x + 1]

\* [pal[x] if x >= 0 else other for x in v], built entry by entry as the
\* comprehension does; the comprehension raises IndexError at the first x
\* beyond the palette (LookupFails)
RECURSIVE ColorsFrom(_, _, _, _)
ColorsFrom(pal, other, v, k) ==
  IF k > Len(v) THEN <<>>
  ELSE << (IF v[k] >= 0 THEN PyGet(pal, v[k]) ELSE other) >>
         \o ColorsFrom(pal, other, v, k + 1)

LookupFails(pal, v) == \E k \in 1..Len(v) : v[k] >= 0 /\ ~InRange(pal, v[k])

\* '{:.2f}'.format(seconds): ticks rounded to hundredths of a second
Fmt2f(ticks) == (2 * ticks + TicksPerCenti) \div (2 * TicksPerCenti)

(* ------------------------------ session ------------------------------- *)

NoModel ==
  [id |-> 0, born |-> "", cls |-> "", mcs |-> 0, ms |-> 0, pd |-> FALSE, fitted |-> 0,
   labels_ |-> <<>>]

NoFigure == [id |-> 0, cell |-> "", axes |-> <<>>, tight |-> FALSE]

\* the names no cell has bound yet hold a value of their type that no cell binds
NoNames ==
  [ data |-> 0, algo_combos |-> <<>>, fig |-> NoFigure, i |-> 0, algo |-> "",
    start_time |-> 0, end_time |-> 0, labels |-> <<>>, labelsBy |-> 0,
    it |-> 0, hdbs |-> NoModel,
    color_palette |-> <<>>, cluster_colors |-> <<>>, clusterer |-> NoModel,
    minsamp |-> 0, test_points |-> 0, test_labels |-> <<>>,
    test_colors |-> <<>> ]

Init ==
  /\ pc = Cells[1]
  /\ error = "none"
  /\ done = <<>>
  /\ ns = NoNames
  /\ clock = 0
  /\ files = [f \in {} |-> Garbage]
  /\ written = {}
  /\ readBack = {}
  /\ inflight = {}
  /\ timed = [open |-> FALSE, calls |-> <<>>, took |-> 0]
  /\ fitLog = <<>>
  /\ predLog = <<>>
  /\ raisedAt = <<>>
  /\ nextId = 1
  /\ drawn = [scatter |-> <<>>, tree |-> <<>>]

Running(label) == pc = label /\ error = "none"

\* the last statement of cell c has run: the next cell starts
Finish(c) == pc' = After(c) /\ done' = Append(done, c)

\* an exception leaves the cell: the run stops where it is
Raise(exc) == error' = exc /\ UNCHANGED <<pc, done>>

(* ------------------------- the first six cells ------------------------ *)

Imports ==
  /\ Running("imports")
  /\ Finish("imports")
  /\ UNCHANGED <<error, ns, clock, files, written, readBack, inflight, timed,
                 fitLog, predLog, raisedAt, nextId, drawn>>

\* %run sklearn-cluster-demo.py: the script is not among the sources; it is
\* taken to draw its figure and to bind nothing the later cells read
RunDemo ==
  /\ Running("run_demo")
  /\ Finish("run_demo")
  /\ UNCHANGED <<error, ns, clock, files, written, readBack, inflight, timed,
                 fitLog, predLog, raisedAt, nextId, drawn>>

WgetTarget_mut == "clusterable_data.npy?raw=true"

\* the file wget -O writes
WgetTarget == "clusterable_data.npy"

\* ! wget <url> -O <file>: the file is written whether or not the download
\* worked, unless the command cannot be started at all; a shell command's
\* failure raises nothing
Wget ==
  /\ Running("wget")
  /\ \/ /\ \E content \in Downloads :
            files' = [f \in DOMAIN files \cup {WgetTarget} |->
                        IF f = WgetTarget THEN content ELSE files[f]]
        /\ written' = written \cup {WgetTarget}
     \/ UNCHANGED <<files, written>>
  /\ Finish("wget")
  /\ UNCHANGED <<error, ns, clock, readBack, inflight, timed, fitLog, predLog,
                 raisedAt, nextId, drawn>>

\* data = np.load('clusterable_data.npy'): a missing or unreadable file raises
LoadData ==
  /\ Running("load")
  /\ readBack' = readBack \cup ({DataFile} \cap written)
  /\ IF DataFile \notin DOMAIN files \/ files[DataFile] = Garbage
       THEN /\ Raise("OSError")
            /\ raisedAt' = Append(raisedAt, "load")
            /\ UNCHANGED ns
       ELSE /\ ns' = [ns EXCEPT !.data = files[DataFile]]
            /\ Finish("load")
            /\ UNCHANGED <<error, raisedAt>>
  /\ UNCHANGED <<clock, files, written, inflight, timed, fitLog, predLog,
                 nextId, drawn>>

PlotData ==
  /\ Running("plot_data")
  /\ Finish("plot_data")
  /\ UNCHANGED <<error, ns, clock, files, written, readBack, inflight, timed,
                 fitLog, predLog, raisedAt, nextId, drawn>>

DefineCombos ==
  /\ Running("combos")
  /\ ns' = [ns EXCEPT !.algo_combos = algo_combos]
  /\ Finish("combos")
  /\ UNCHANGED <<error, clock, files, written, readBack, inflight, timed,
                 fitLog, predLog, raisedAt, nextId, drawn>>

(* ------------------------- the comparison cell ------------------------ *)

NewFigure(cell) == [id |-> nextId, cell |-> cell, axes |-> <<>>, tight |-> FALSE]

\* a library call made while the timer is open is a call the run time covers
Timed(name) ==
  IF timed.open THEN [timed EXCEPT !.calls = Append(@, name)] ELSE timed

\* fig = plt.figure(...); plot_kwds = {...}; the for statement's iterator
CmpFigure ==
  /\ Running("compare")
  /\ ns' = [ns EXCEPT !.fig = NewFigure("compare"), !.it = 0]
  /\ nextId' = nextId + 1
  /\ pc' = "compare_loop"
  /\ UNCHANGED <<error, done, clock, files, written, readBack, inflight,
                 timed, fitLog, predLog, raisedAt, drawn>>

\* for i, (algo, args, algo_kwargs) in enumerate(algo_combos, start=1)
CmpLoop ==
  /\ Running("compare_loop")
  /\ IF ns.it < Len(ns.algo_combos)
       THEN /\ ns' = [ns EXCEPT !.it = @ + 1, !.i = ns.it + 1,
                                !.algo = ns.algo_combos[ns.it + 1].algo]
            /\ pc' = "compare_start"
       ELSE /\ pc' = "compare_layout"
            /\ UNCHANGED ns
  /\ UNCHANGED <<error, done, clock, files, written, readBack, inflight,
                 timed, fitLog, predLog, raisedAt, nextId, drawn>>

\* start_time = time.time()
CmpStartTime ==
  /\ Running("compare_start")
  /\ ns' = [ns EXCEPT !.start_time = clock]
  /\ timed' = [open |-> TRUE, calls |-> <<>>, took |-> 0]
  /\ pc' = "compare_fit"
  /\ UNCHANGED <<error, done, clock, files, written, readBack, inflight,
                 fitLog, predLog, raisedAt, nextId, drawn>>

\* a fit handed to a worker: the loop goes on without its result
CmpFitCall_async ==
  /\ Running("compare_fit")
  /\ inflight' = inflight \cup {[call |-> "fit_predict", id |-> nextId]}
  /\ fitLog' = Append(fitLog, [algo |-> ns.algo, id |-> nextId, arg |-> ns.data])
  /\ timed' = Timed("fit_predict")
  /\ nextId' = nextId + 1
  /\ pc' = "compare_loop"
  /\ UNCHANGED <<error, done, ns, clock, files, written, readBack, predLog,
                 raisedAt, drawn>>

\* algo(*args, **algo_kwargs).fit_predict(data): the estimator is built and
\* the call is made
CmpFitCall ==
  /\ Running("compare_fit")
  /\ inflight' = inflight \cup {[call |-> "fit_predict", id |-> nextId]}
  /\ fitLog' = Append(fitLog, [algo |-> ns.algo, id |-> nextId, arg |-> ns.data])
  /\ timed' = Timed("fit_predict")
  /\ nextId' = nextId + 1
  /\ pc' = "compare_wait"
  /\ UNCHANGED <<error, done, ns, clock, files, written, readBack, predLog,
                 raisedAt, drawn>>

\* labels = <the call's result>, after the time the fit took
CmpFitReturn ==
  /\ Running("compare_wait")
  /\ \E v \in LabelVectors, d \in 0..MaxFitTicks :
       /\ ns' = [ns EXCEPT !.labels = v, !.labelsBy = nextId - 1]
       /\ clock' = clock + d
       /\ timed' = [timed EXCEPT !.took = d]
  /\ inflight' = {}
  /\ pc' = "compare_end"
  /\ UNCHANGED <<error, done, files, written, readBack, fitLog, predLog,
                 raisedAt, nextId, drawn>>

\* an except clause that goes on to the next algorithm
CmpFitRaise_swallow ==
  /\ Running("compare_wait")
  /\ raisedAt' = Append(raisedAt, "compare")
  /\ inflight' = {}
  /\ pc' = "compare_loop"
  /\ UNCHANGED <<error, done, ns, clock, files, written, readBack, timed,
                 fitLog, predLog, nextId, drawn>>

\* the call raises: nothing in the cell catches it
CmpFitRaise ==
  /\ Running("compare_wait")
  /\ raisedAt' = Append(raisedAt, "compare")
  /\ inflight' = {}
  /\ Raise("LibraryError")
  /\ UNCHANGED <<ns, clock, files, written, readBack, timed, fitLog, predLog,
                 nextId, drawn>>

\* end_time = time.time()
CmpEndTime ==
  /\ Running("compare_end")
  /\ ns' = [ns EXCEPT !.end_time = clock]
  /\ timed' = [timed EXCEPT !.open = FALSE]
  /\ pc' = "compare_plot"
  /\ UNCHANGED <<error, done, clock, files, written, readBack, inflight,
                 fitLog, predLog, raisedAt, nextId, drawn>>

\* palette = sns.color_palette('deep', np.unique(labels).max() + 1)
\* colors = [palette[x] if x >= 0 else (0.0, 0.0, 0.0) for x in labels]
\* ax = fig.add_subplot(4,2,i); ax.scatter(..., c=colors); the axes hidden
\* (palette and colors are read nowhere else: they live in this step only)
CmpPlot ==
  /\ Running("compare_plot")
  /\ LET palette == ColorPalette(SetMax(Unique(ns.labels)) + 1)
         colors == ColorsFrom(palette, Black, ns.labels, 1)
     IN  ns' = [ns EXCEPT !.fig.axes =
                  Append(@, [pos |-> ns.i, points |-> Len(colors),
                             text |-> <<>>, covered |-> <<>>, took |-> 0])]
  /\ clock' = clock + 2 * PlotTicks
  /\ timed' = IF timed.open
                THEN [timed EXCEPT !.calls = @ \o <<"color_palette", "scatter">>]
                ELSE timed
  /\ pc' = "compare_text"
  /\ UNCHANGED <<error, done, files, written, readBack, inflight, fitLog,
                 predLog, raisedAt, nextId, drawn>>

Elapsed_swapped(n) == n.start_time - n.end_time

\* (end_time - start_time)
Elapsed(n) == n.end_time - n.start_time

\* ax.text(..., '{}: {:.2f} s'.format(str(algo.__name__), (end_time - start_time)))
CmpText ==
  /\ Running("compare_text")
  /\ ns' = [ns EXCEPT !.fig.axes[Len(ns.fig.axes)] =
              [@ EXCEPT !.text = <<ns.algo, Fmt2f(Elapsed(ns))>>,
                        !.covered = timed.calls, !.took = timed.took]]
  /\ clock' = clock + PlotTicks
  /\ timed' = Timed("text")
  /\ pc' = "compare_loop"
  /\ UNCHANGED <<error, done, files, written, readBack, inflight, fitLog,
                 predLog, raisedAt, nextId, drawn>>

\* fig.tight_layout()
CmpLayout ==
  /\ Running("compare_layout")
  /\ ns' = [ns EXCEPT !.fig.tight = TRUE]
  /\ Finish("compare")
  /\ UNCHANGED <<error, clock, files, written, readBack, inflight, timed,
                 fitLog, predLog, raisedAt, nextId, drawn>>

(* -------------------------- the HDBSCAN cells ------------------------- *)

NewModel(born, mcs, ms, pd) ==
  [id |-> nextId, born |-> born, cls |-> "HDBSCAN", mcs |-> mcs, ms |-> ms, pd |-> pd,
   fitted |-> 0, labels_ |-> <<>>]

\* hdbs = hdbscan.HDBSCAN(min_cluster_size=20)
HdbsNew ==
  /\ Running("hdbs_new")
  /\ ns' = [ns EXCEPT !.hdbs = NewModel("hdbs_new", HdbsMinClusterSize, 0, FALSE)]
  /\ nextId' = nextId + 1
  /\ Finish("hdbs_new")
  /\ UNCHANGED <<error, clock, files, written, readBack, inflight, timed,
                 fitLog, predLog, raisedAt, drawn>>

\* hdbs.fit_predict(data): the call is made
HdbsFitCall ==
  /\ Running("hdbs_fit")
  /\ inflight' = inflight \cup {[call |-> "fit_predict", id |-> ns.hdbs.id]}
  /\ pc' = "hdbs_fit_wait"
  /\ UNCHANGED <<error, done, ns, clock, files, written, readBack, timed,
                 fitLog, predLog, raisedAt, nextId, drawn>>

\* labels = <the call's result>; the model keeps its labels
HdbsFitReturn ==
  /\ Running("hdbs_fit_wait")
  /\ \E v \in LabelVectors :
       ns' = [ns EXCEPT !.hdbs.fitted = ns.data, !.hdbs.labels_ = v,
                        !.labels = v, !.labelsBy = ns.hdbs.id]
  /\ inflight' = {}
  /\ Finish("hdbs_fit")
  /\ UNCHANGED <<error, clock, files, written, readBack, timed, fitLog,
                 predLog, raisedAt, nextId, drawn>>

HdbsFitRaise ==
  /\ Running("hdbs_fit_wait")
  /\ raisedAt' = Append(raisedAt, "hdbs_fit")
  /\ inflight' = {}
  /\ Raise("LibraryError")
  /\ UNCHANGED <<ns, clock, files, written, readBack, timed, fitLog, predLog,
                 nextId, drawn>>

HdbsPaletteSize_max(v) == SetMax(Unique(v)) + 1

\* len(np.unique(labels))
HdbsPaletteSize(v) == Cardinality(Unique(v))

\* color_palette = sns.color_palette('deep', len(np.unique(labels)))
HdbsPalette ==
  /\ Running("hdbs_scatter")
  /\ ns' = [ns EXCEPT !.color_palette = ColorPalette(HdbsPaletteSize(ns.labels))]
  /\ pc' = "hdbs_colors"
  /\ UNCHANGED <<error, done, clock, files, written, readBack, inflight,
                 timed, fitLog, predLog, raisedAt, nextId, drawn>>

cluster_colors_black(pal, v) == ColorsFrom(pal, Black, v, 1)

\* [color_palette[x] if x >= 0 else (0.5, 0.5, 0.5) for x in labels]
cluster_colors(pal, v) == ColorsFrom(pal, Gray, v, 1)

HdbsColors ==
  /\ Running("hdbs_colors")
  /\ IF LookupFails(ns.color_palette, ns.labels)
       THEN /\ Raise("IndexError")
            /\ raisedAt' = Append(raisedAt, "hdbs_scatter")
            /\ UNCHANGED ns
       ELSE /\ ns' = [ns EXCEPT !.cluster_colors =
                        cluster_colors(ns.color_palette, ns.labels)]
            /\ pc' = "hdbs_draw"
            /\ UNCHANGED <<error, done, raisedAt>>
  /\ UNCHANGED <<clock, files, written, readBack, inflight, timed, fitLog,
                 predLog, nextId, drawn>>

\* plt.figure(...); plt.scatter(*data.T, s=50, c=cluster_colors, alpha=0.3)
HdbsDraw ==
  /\ Running("hdbs_draw")
  /\ drawn' = [drawn EXCEPT !.scatter =
                 << [colors |-> ns.cluster_colors, palette |-> ns.color_palette,
                     labels |-> ns.labels, model |-> ns.labelsBy] >>]
  /\ Finish("hdbs_scatter")
  /\ UNCHANGED <<error, ns, clock, files, written, readBack, inflight, timed,
                 fitLog, predLog, raisedAt, nextId>>

\* hdbs.condensed_tree_.plot(select_clusters=True, selection_palette=color_palette)
\* (a model that was never fitted has no condensed tree)
TreePlot ==
  /\ Running("tree_plot")
  /\ IF ns.hdbs.fitted = 0
       THEN /\ Raise("AttributeError")
            /\ raisedAt' = Append(raisedAt, "tree_plot")
            /\ UNCHANGED drawn
       ELSE /\ drawn' = [drawn EXCEPT !.tree =
                           << [model |-> ns.hdbs, palette |-> ns.color_palette] >>]
            /\ Finish("tree_plot")
            /\ UNCHANGED <<error, raisedAt>>
  /\ UNCHANGED <<ns, clock, files, written, readBack, inflight, timed, fitLog,
                 predLog, nextId>>

\* df = hdbs.condensed_tree_.to_pandas(); df.head()
TreePandas ==
  /\ Running("tree_pandas")
  /\ Finish("tree_pandas")
  /\ UNCHANGED <<error, ns, clock, files, written, readBack, inflight, timed,
                 fitLog, predLog, raisedAt, nextId, drawn>>

(* ------------------------- the min_samples cell ----------------------- *)

\* min_sample_vals = [...]; fig = plt.figure(...); plot_kwds = {...}
MsFigure ==
  /\ Running("min_samples")
  /\ ns' = [ns EXCEPT !.fig = NewFigure("min_samples"), !.it = 0]
  /\ nextId' = nextId + 1
  /\ pc' = "ms_loop"
  /\ UNCHANGED <<error, done, clock, files, written, readBack, inflight,
                 timed, fitLog, predLog, raisedAt, drawn>>

\* for i, minsamp in enumerate(min_sample_vals, start=1)
MsLoop ==
  /\ Running("ms_loop")
  /\ IF ns.it < Len(min_sample_vals)
       THEN /\ ns' = [ns EXCEPT !.it = @ + 1, !.i = ns.it + 1,
                                !.minsamp = min_sample_vals[ns.it + 1]]
            /\ pc' = "ms_fit"
       ELSE /\ pc' = "ms_layout"
            /\ UNCHANGED ns
  /\ UNCHANGED <<error, done, clock, files, written, readBack, inflight,
                 timed, fitLog, predLog, raisedAt, nextId, drawn>>

\* hdbscan.HDBSCAN(min_cluster_size=50, min_samples=minsamp).fit(data): the call
MsFitCall ==
  /\ Running("ms_fit")
  /\ inflight' = inflight \cup {[call |-> "fit", id |-> nextId]}
  /\ nextId' = nextId + 1
  /\ pc' = "ms_wait"
  /\ UNCHANGED <<error, done, ns, clock, files, written, readBack, timed,
                 fitLog, predLog, raisedAt, drawn>>

\* clusterer = <the fitted model>
MsFitReturn ==
  /\ Running("ms_wait")
  /\ \E v \in LabelVectors :
       ns' = [ns EXCEPT !.clusterer =
                [id |-> nextId - 1, born |-> "min_samples", cls |-> "HDBSCAN",
                 mcs |-> MsMinClusterSize, ms |-> ns.minsamp, pd |-> FALSE,
                 fitted |-> ns.data, labels_ |-> v]]
  /\ inflight' = {}
  /\ pc' = "ms_palette"
  /\ UNCHANGED <<error, done, clock, files, written, readBack, timed, fitLog,
                 predLog, raisedAt, nextId, drawn>>

MsFitRaise ==
  /\ Running("ms_wait")
  /\ raisedAt' = Append(raisedAt, "min_samples")
  /\ inflight' = {}
  /\ Raise("LibraryError")
  /\ UNCHANGED <<ns, clock, files, written, readBack, timed, fitLog, predLog,
                 nextId, drawn>>

\* color_palette = sns.color_palette('deep', len(clusterer.labels_))
\* cluster_colors = [color_palette[x] if x >= 0 else (0.5, 0.5, 0.5) ...]
MsPalette ==
  /\ Running("ms_palette")
  /\ LET pal == ColorPalette(Len(ns.clusterer.labels_))
     IN  IF LookupFails(pal, ns.clusterer.labels_)
           THEN /\ Raise("IndexError")
                /\ raisedAt' = Append(raisedAt, "min_samples")
                /\ ns' = [ns EXCEPT !.color_palette = pal]
           ELSE /\ ns' = [ns EXCEPT !.color_palette = pal,
                            !.cluster_colors =
                               ColorsFrom(pal, Gray, ns.clusterer.labels_, 1)]
                /\ pc' = "ms_plot"
                /\ UNCHANGED <<error, done, raisedAt>>
  /\ UNCHANGED <<clock, files, written, readBack, inflight, timed, fitLog,
                 predLog, nextId, drawn>>

\* ax = fig.add_subplot(2,2,i); ax.scatter(...); ax.text(..., 'min_samples: {}')
MsPlot ==
  /\ Running("ms_plot")
  /\ ns' = [ns EXCEPT !.fig.axes =
              Append(@, [pos |-> ns.i, points |-> Len(ns.cluster_colors),
                         text |-> <<"min_samples", ns.minsamp>>,
                         covered |-> <<>>, took |-> 0])]
  /\ pc' = "ms_loop"
  /\ UNCHANGED <<error, done, clock, files, written, readBack, inflight,
                 timed, fitLog, predLog, raisedAt, nextId, drawn>>

MsLayout ==
  /\ Running("ms_layout")
  /\ ns' = [ns EXCEPT !.fig.tight = TRUE]
  /\ Finish("min_samples")
  /\ UNCHANGED <<error, clock, files, written, readBack, inflight, timed,
                 fitLog, predLog, raisedAt, nextId, drawn>>

(* -------------------------- the prediction cells ---------------------- *)

PredictionData_off == FALSE

\* prediction_data=True
PredictionData == TRUE

\* hdbscan.HDBSCAN(min_cluster_size=20, prediction_data=True).fit(data): the call
PredFitCall ==
  /\ Running("pred_fit")
  /\ inflight' = inflight \cup {[call |-> "fit", id |-> nextId]}
  /\ nextId' = nextId + 1
  /\ pc' = "pred_fit_wait"
  /\ UNCHANGED <<error, done, ns, clock, files, written, readBack, timed,
                 fitLog, predLog, raisedAt, drawn>>

\* hdbs = <the fitted model>
PredFitReturn ==
  /\ Running("pred_fit_wait")
  /\ \E v \in LabelVectors :
       ns' = [ns EXCEPT !.hdbs =
                [id |-> nextId - 1, born |-> "pred_fit", cls |-> "HDBSCAN",
                 mcs |-> HdbsMinClusterSize, ms |-> 0, pd |-> PredictionData,
                 fitted |-> ns.data, labels_ |-> v]]
  /\ inflight' = {}
  /\ Finish("pred_fit")
  /\ UNCHANGED <<error, clock, files, written, readBack, timed, fitLog,
                 predLog, raisedAt, nextId, drawn>>

PredFitRaise ==
  /\ Running("pred_fit_wait")
  /\ raisedAt' = Append(raisedAt, "pred_fit")
  /\ inflight' = {}
  /\ Raise("LibraryError")
  /\ UNCHANGED <<ns, clock, files, written, readBack, timed, fitLog, predLog,
                 nextId, drawn>>

\* [pal[col] for col in v]: a negative col counts from the end of the palette
RECURSIVE ColorsByIndex(_, _, _)
ColorsByIndex(pal, v, k) ==
  IF k > Len(v) THEN <<>>
  ELSE <<PyGet(pal, v[k])>> \o ColorsByIndex(pal, v, k + 1)

\* test_points = np.random.random(size=(50, 2)) - 0.5
\* color_palette = sns.color_palette('deep', 12)
\* cluster_colors = [sns.desaturate(color_palette[col], sat) for col, sat in ...]
\* (how far each colour is desaturated is not modelled)
PredPlot ==
  /\ Running("pred_plot")
  /\ LET pal == ColorPalette(PredPaletteSize)
     IN  IF \E k \in 1..Len(ns.hdbs.labels_) : ~InRange(pal, ns.hdbs.labels_[k])
           THEN /\ Raise("IndexError")
                /\ raisedAt' = Append(raisedAt, "pred_plot")
                /\ ns' = [ns EXCEPT !.test_points = NTestPoints,
                                    !.color_palette = pal]
           ELSE /\ ns' = [ns EXCEPT !.test_points = NTestPoints,
                            !.color_palette = pal,
                            !.cluster_colors =
                               ColorsByIndex(pal, ns.hdbs.labels_, 1)]
                /\ Finish("pred_plot")
                /\ UNCHANGED <<error, raisedAt>>
  /\ UNCHANGED <<clock, files, written, readBack, inflight, timed, fitLog,
                 predLog, nextId, drawn>>

\* hdbscan.approximate_predict(hdbs, test_points): the call; the library
\* refuses a model that holds no prediction data
ApproxCall ==
  /\ Running("approx")
  /\ predLog' = Append(predLog, ns.hdbs)
  /\ IF ~ns.hdbs.pd
       THEN /\ Raise("ValueError")
            /\ raisedAt' = Append(raisedAt, "approx")
            /\ UNCHANGED inflight
       ELSE /\ inflight' = inflight \cup
                             {[call |-> "approximate_predict", id |-> ns.hdbs.id]}
            /\ pc' = "approx_wait"
            /\ UNCHANGED <<error, done, raisedAt>>
  /\ UNCHANGED <<ns, clock, files, written, readBack, timed, fitLog, nextId,
                 drawn>>

\* test_labels, strengths = <the call's result>
ApproxReturn ==
  /\ Running("approx_wait")
  /\ \E v \in TestLabelVectors : ns' = [ns EXCEPT !.test_labels = v]
  /\ inflight' = {}
  /\ Finish("approx")
  /\ UNCHANGED <<error, clock, files, written, readBack, timed, fitLog,
                 predLog, raisedAt, nextId, drawn>>

\* test_colors = [color_palette[col] if col >= 0 else (0.1, 0.1, 0.1) ...]
PredColors ==
  /\ Running("pred_colors")
  /\ IF LookupFails(ns.color_palette, ns.test_labels)
       THEN /\ Raise("IndexError")
            /\ raisedAt' = Append(raisedAt, "pred_colors")
            /\ UNCHANGED ns
       ELSE /\ ns' = [ns EXCEPT !.test_colors =
                        ColorsFrom(ns.color_palette, NearBlack, ns.test_labels, 1)]
            /\ Finish("pred_colors")
            /\ UNCHANGED <<error, raisedAt>>
  /\ UNCHANGED <<clock, files, written, readBack, inflight, timed, fitLog,
                 predLog, nextId, drawn>>

(* --------------------------- the whole run ---------------------------- *)

Next ==
  \/ Imports \/ RunDemo \/ Wget \/ LoadData \/ PlotData \/ DefineCombos
  \/ CmpFigure \/ CmpLoop \/ CmpStartTime \/ CmpFitCall \/ CmpFitReturn
  \/ CmpFitRaise \/ CmpEndTime \/ CmpPlot \/ CmpText
  \/ CmpLayout
  \/ HdbsNew \/ HdbsFitCall \/ HdbsFitReturn \/ HdbsFitRaise \/ HdbsPalette
  \/ HdbsColors \/ HdbsDraw \/ TreePlot \/ TreePandas
  \/ MsFigure \/ MsLoop \/ MsFitCall \/ MsFitReturn \/ MsFitRaise \/ MsPalette
  \/ MsPlot \/ MsLayout
  \/ PredFitCall \/ PredFitReturn \/ PredFitRaise \/ PredPlot \/ ApproxCall
  \/ ApproxReturn \/ PredColors

Spec == Init /\ [][Next]_vars

(* ------------------------------ the claims ---------------------------- *)

InDone(c) == \E k \in 1..Len(done) : done[k] = c

ExpectedAlgos ==
  << "KMeans", "AffinityPropagation", "MeanShift", "SpectralClustering",
     "AgglomerativeClustering", "DBSCAN", "HDBSCAN" >>

PanelsComplete(n) ==
  /\ Len(ns.fig.axes) = n
  /\ \A k \in 1..n : Len(ns.fig.axes[k].text) > 0 /\ ns.fig.axes[k].pos = k

\* C1: the comparison cell fits the seven algorithms KMeans,
\* AffinityPropagation, MeanShift, SpectralClustering,
\* AgglomerativeClustering, DBSCAN, HDBSCAN: at every moment the fits made so
\* far are the first fits of that list, one each and in that order, each on
\* an estimator of its own, every one of them was handed the dataset that was loaded (which is still what `data`
\* names), and once the cell has finished all seven have been made.
C1_SevenFitsInOrder ==
  /\ Len(fitLog) <= Len(ExpectedAlgos)
  /\ \A k \in 1..Len(fitLog) :
       /\ fitLog[k].algo = ExpectedAlgos[k]
       /\ fitLog[k].arg = ns.data
       /\ fitLog[k].arg = files[DataFile]
       /\ fitLog[k].arg \in 1..NDatasets
       /\ \A j \in 1..Len(fitLog) : fitLog[j].id = fitLog[k].id => j = k
  /\ InDone("compare") => Len(fitLog) = Len(ExpectedAlgos)

C1_Witness == InDone("compare") /\ Len(fitLog) = 7 /\ ns.data = NDatasets

\* C2: on the comparison figure, the text of panel i is the name of algorithm
\* i with the formatted end_time - start_time; the two clock reads enclose
\* the fit_predict statement of that algorithm and no other library call (no
\* palette, no scatter, no text, no other fit), so the number shown is the
\* time that fit took, and it is never negative.
C2_RunTimeCoversFitOnly ==
  /\ ns.fig.cell = "compare" =>
       \A k \in 1..Len(ns.fig.axes) :
         LET a == ns.fig.axes[k]
         IN  Len(a.text) > 0 =>
               /\ a.text = <<ExpectedAlgos[k], Fmt2f(a.took)>>
               /\ a.text[2] >= 0
               /\ a.covered = <<"fit_predict">>
  /\ pc \in {"compare_plot", "compare_text"} =>
       /\ ns.end_time - ns.start_time = timed.took
       /\ ns.end_time >= ns.start_time

C2_Witness ==
  /\ ns.fig.cell = "compare"
  /\ Len(ns.fig.axes) = 7
  /\ Len(ns.fig.axes[7].text) > 0
  /\ ns.fig.axes[7].took > 0
  /\ ns.fig.axes[2].took = 0
  /\ Len(ns.fig.axes[2].text) > 0

C3_Halted ==
  /\ raisedAt # <<>> => error # "none" /\ Len(raisedAt) = 1
  /\ (error # "none" /\ pc = "compare_wait") =>
       /\ Len(fitLog) = ns.i
       /\ PanelsComplete(ns.i - 1)
       /\ ~ns.fig.tight
       /\ ~InDone("compare")
       /\ inflight = {}

C3_RaiseStep ==
  (error = "none" /\ error' # "none" /\ pc = "compare_wait") =>
     /\ ns' = ns
     /\ fitLog' = fitLog
     /\ pc' = pc
     /\ done' = done

\* C3: nothing in the notebook handles a failure.  An exception a library
\* call raises always ends the run; when fit_predict of algorithm i raises in
\* the comparison loop, the step that raises changes no name of the session
\* (the panels of algorithms 1..i-1 stay as drawn), exactly i fits have been
\* made and none follows, i-1 panels are drawn, and fig.tight_layout() has
\* not run and never will: the halted run takes no further step.
C3_ExceptionPropagates ==
  /\ [](C3_Halted)
  /\ [][C3_RaiseStep]_vars
  /\ [][error # "none" => UNCHANGED vars]_vars

C3_Witness ==
  /\ error = "LibraryError"
  /\ pc = "compare_wait"
  /\ ns.i = 3
  /\ Len(ns.fig.axes) = 2

\* C4 (as claimed): no step writes state outside the session that a later
\* step reads back.
C4_NothingReadBack == readBack = {}

\* C4 (amended): the one piece of state kept outside the session is the file
\* clusterable_data.npy: the wget cell writes it and the next cell reads it
\* back with np.load, which is where `data` comes from.  No other file is
\* written, and nothing else that was written is read back.
C4_OnlyTheDataFile ==
  /\ written \subseteq {DataFile}
  /\ DOMAIN files = written
  /\ readBack \subseteq written
  /\ InDone("load") =>
       /\ written = {DataFile}
       /\ readBack = {DataFile}
       /\ ns.data = files[DataFile]
       /\ ns.data \in 1..NDatasets
  /\ ~InDone("load") => ns.data = 0

C4_Witness == InDone("load") /\ readBack = {DataFile} /\ ns.data = 2

WaitLabels == {"compare_wait", "hdbs_fit_wait", "ms_wait", "pred_fit_wait", "approx_wait"}

\* C5: at most one library call is in progress at any time, a call is in
\* progress only while the statement that made it waits for it, and in both
\* loops the fit of iteration i starts only when the panels of iterations
\* 1..i-1 are complete (scatter and text drawn).
C5_OneCallAtATime ==
  /\ Cardinality(inflight) <= 1
  /\ inflight # {} <=> (pc \in WaitLabels /\ error = "none")
  /\ pc \in {"compare_fit", "compare_wait", "ms_fit", "ms_wait"} =>
       PanelsComplete(ns.i - 1)

C5_Witness ==
  \/ pc = "compare_wait" /\ ns.i = 2 /\ Cardinality(inflight) = 1
       /\ Len(ns.fig.axes) = 1 /\ error = "none"

\* C6: when the condensed tree is plotted, the model whose tree is drawn is
\* the model whose fit_predict produced the labels of the HDBSCAN scatter
\* plot, and the selection palette is the palette that coloured that scatter:
\* the colours of the scatter are the tree's palette looked up by the tree
\* model's labels.
C6_TreeMatchesScatter ==
  Len(drawn.tree) > 0 =>
    /\ Len(drawn.scatter) > 0
    /\ LET t == drawn.tree[1]
           s == drawn.scatter[1]
       IN  /\ t.model.id = s.model
           /\ t.model.born = "hdbs_new"
           /\ t.model.labels_ = s.labels
           /\ t.palette = s.palette
           /\ \A k \in 1..Len(s.labels) :
                s.labels[k] >= 0 => s.colors[k] = t.palette[t.model.labels_[k] + 1]

C6_Witness ==
  /\ Len(drawn.tree) > 0
  /\ \E k \in 1..NPoints : drawn.tree[1].model.labels_[k] >= 0
  /\ \E k \in 1..NPoints : drawn.tree[1].model.labels_[k] < 0

\* C7: every model handed to approximate_predict was created with
\* prediction_data=True by the prediction cell and is already fitted on
\* `data`; it is never the model the first HDBSCAN cell created.
C7_PredictOnPreparedModel ==
  \A k \in 1..Len(predLog) :
    /\ predLog[k].pd
    /\ predLog[k].born = "pred_fit"
    /\ predLog[k].fitted = ns.data
    /\ predLog[k].fitted # 0
    /\ Len(predLog[k].labels_) = NPoints

C7_Witness == Len(predLog) = 1 /\ pc = "approx_wait" /\ error = "none"

\* C8: the colour list of the HDBSCAN scatter plot has one entry per point,
\* in point order: the palette colour of its label for a point with a label
\* x >= 0, and exactly (0.5, 0.5, 0.5) for a point with a negative label.
C8_ColoursFollowLabels ==
  /\ pc = "hdbs_draw" => Len(ns.cluster_colors) = Len(ns.labels)
  /\ Len(drawn.scatter) > 0 =>
       LET s == drawn.scatter[1]
       IN  /\ Len(s.colors) = NPoints
           /\ Len(s.labels) = NPoints
           /\ \A k \in 1..NPoints :
                /\ s.labels[k] >= 0 => s.colors[k] = s.palette[s.labels[k] + 1]
                /\ s.labels[k] < 0 => s.colors[k] = <<500, 500, 500>>

C8_Witness ==
  /\ Len(drawn.scatter) > 0
  /\ drawn.scatter[1].labels[1] < 0
  /\ drawn.scatter[1].labels[2] = 1

====
